---- MODULE Spec2Model ----
(***************************************************************************)
(* A model of audio_scanner.py: the command line of main, the walk of      *)
(* scan_directory over the audio files of a directory tree, and the tag    *)
(* accessors get_album_artist, set_album_artist and set_release_type.      *)
(*                                                                         *)
(* The tagging library is the environment.  Every call into it either      *)
(* works on the file's tag or raises; which one is chosen by the           *)
(* environment at each call.  A call that raises leaves the tag as it was. *)
(***************************************************************************)
EXTENDS Integers, Sequences, FiniteSets, TLC

\* Number of audio files in the tree.
NumFiles == 2

\* Parent directories of the tree.
Dirs == {"A", "B"}

\* Python's None, False-y for every test the program makes.
None == "None"

VariousArtists == "Various Artists"

\* The entries rglob yields that are regular files (line 137).
Files == 1..NumFiles
Entries == 1..NumFiles

\* The Album Artist values a file can carry on disk (None: no such tag).
TagValues == {None, " ", VariousArtists, "DJ Mix"}

\* argparse: --force absent (None), --force without VALUE (const), --force VALUE.
ForceArgs == {None, VariousArtists, "", "Soundtrack"}
\* argparse: --release-type absent (None) or --release-type TYPE.
ReleaseTypeArgs == {None, "", "compilation"}

\* --update and --force are in one mutually exclusive group.
ArgSpace ==
    {a \in [update : BOOLEAN, force : ForceArgs, release_type : ReleaseTypeArgs] :
        ~(a.update /\ a.force # None)}

VARIABLES
    args,               \* the parsed command line
    parent,             \* entry -> its parent directory
    albumArtist,        \* audio file -> Album Artist on disk
    releaseType,        \* audio file -> Release Type on disk
    albumArtist0,       \* Album Artist on disk when the run started
    pc,                 \* "main", "walk", "done"
    update_mode, force_mode, force_value, release_type, release_type_only,
    todo,               \* entries rglob has not yielded yet
    processed_dirs,
    updated_dirs,
    banner,             \* the line main prints before the walk
    log                 \* directory -> its library calls and report lines, in order

vars == <<args, parent, albumArtist, releaseType, albumArtist0, pc,
          update_mode, force_mode, force_value, release_type, release_type_only,
          todo, processed_dirs, updated_dirs, banner, log>>

fsvars == <<parent, albumArtist0>>
modevars == <<args, update_mode, force_mode, force_value, release_type, release_type_only>>

----------------------------------------------------------------------------
\* Python values

\* bool(v) of a str-or-None value.
Truthy(v) == v # None /\ v # ""

\* str.strip() on the strings of the model.
Strip(s) == IF s = " " THEN "" ELSE s

\* Path.suffix of an entry.
Suffix(e) ==
    CASE e = 0     -> ".jpg"
      [] e % 3 = 1 -> ".mp3"
      [] e % 3 = 2 -> ".FLAC"
      [] OTHER     -> ".m4a"

\* str.lower() on the suffixes of the model.
Lower(s) == IF s = ".FLAC" THEN ".flac" ELSE s

is_audio_file(e) ==
    Lower(Suffix(e)) \in {".mp3", ".flac", ".m4a", ".mp4", ".ogg", ".wav", ".wma", ".aac"}

\* The tag key set_album_artist writes for a suffix.
AlbumArtistKey(suffix) ==
    CASE Lower(suffix) = ".mp3"              -> "TPE2"
      [] Lower(suffix) \in {".flac", ".ogg"} -> "ALBUMARTIST"
      [] Lower(suffix) \in {".m4a", ".mp4"}  -> "aART"
      [] OTHER                               -> "ALBUMARTIST"

\* audio_file.get(key): the file's Album Artist lives under the key of its format.
TagGet(disk, f, key) == IF key = AlbumArtistKey(Suffix(f)) THEN disk[f] ELSE None

\* get_album_artist: None when the library raises, else the probe of the
\* three keys in order, each probe made only when the one before was falsy.
get_album_artist(disk, f, raises) ==
    IF raises THEN None
    ELSE LET a1 == TagGet(disk, f, "TPE2")
             a2 == IF ~Truthy(a1) THEN TagGet(disk, f, "ALBUMARTIST") ELSE a1
             a3 == IF ~Truthy(a2) THEN TagGet(disk, f, "aART") ELSE a2
         IN  a3

\* set_album_artist / set_release_type: the tag after the call.
set_tag(disk, f, value, raises) ==
    IF raises THEN disk ELSE [disk EXCEPT ![f] = value]

----------------------------------------------------------------------------
\* The log

Ev(op, f, v, ok) == <<op, f, v, ok>>

GetEv(f, res, raises) == Ev("get", f, res, ~raises)
SetAAEv(f, v, raises) == Ev("set_album_artist", f, v, ~raises)
SetRTEv(f, v, raises) == Ev("set_release_type", f, v, ~raises)
PrintEv(kind, v)   == Ev(kind, 0, v, TRUE)

ReportKinds == {"Scan", "Updated", "Force Updated", "Release Type Updated"}

\* The files a log has events of one kind about.
FilesOf(l, op) == {l[i][2] : i \in {j \in DOMAIN l : l[j][1] = op}}

----------------------------------------------------------------------------
\* The directory listing

RECURSIVE SortedSeq(_)
SortedSeq(S) ==
    IF S = {} THEN <<>>
    ELSE LET m == CHOOSE x \in S : \A y \in S : x <= y
         IN  <<m>> \o SortedSeq(S \ {m})

\* dir_files: the audio files of a directory, in the directory's order.
dir_files(d) == SortedSeq({f \in Entries : parent[f] = d /\ is_audio_file(f)})

----------------------------------------------------------------------------
\* The decisions of scan_directory

\* Lines 180 and 189: the file counts as having no Album Artist.
IsMissing(album_artist) == album_artist = None \/ Strip(album_artist) = ""

\* Line 206: scan mode reports the directory.
Reported(album_artist) == album_artist # VariousArtists

\* Line 208: the value on the scan line.
artist_value(album_artist) == IF Truthy(album_artist) THEN album_artist ELSE "(not set)"

\* Line 143: the walk takes the per-directory branch.
DirectoryMode == update_mode \/ force_mode \/ release_type_only

\* The update branch tested before the release-type branch (changed behaviour).
BranchUpdateFirst ==
    IF update_mode THEN "update"
    ELSE IF release_type_only THEN "release_type"
    ELSE IF force_mode THEN "force"
    ELSE "none"

\* Lines 147, 158, 175: the branch of the per-directory pass.
Branch ==
    IF release_type_only THEN "release_type"
    ELSE IF force_mode THEN "force"
    ELSE IF update_mode THEN "update"
    ELSE "none"

\* The line printed whatever the writes returned (changed behaviour).
ReportLineAlways(kind, updated_any) == <<PrintEv(kind, "")>>

\* Lines 154-155, 171-172, 193-194: the report line of a pass.
ReportLine(kind, updated_any) ==
    IF updated_any THEN <<PrintEv(kind, "")>> ELSE <<>>

\* Lines 156, 173, 195.
UpdatedAfter(d, updated_any) ==
    IF updated_any THEN updated_dirs \cup {d} ELSE updated_dirs

\* The directory is never marked (changed behaviour, used to test the properties).
ProcessedAfterNoMark(d) == processed_dirs

\* Line 197.
ProcessedAfter(d) == processed_dirs \cup {d}

\* The directory is marked after its first file whatever that file reads
\* (changed behaviour, used to test the properties).
ScanProcessedAfterFirst(d, reported) == processed_dirs \cup {d}

\* The directory is never marked in scan mode (changed behaviour).
ScanProcessedAfterNoMark(d, reported) == processed_dirs

\* Lines 206 and 210: scan mode marks the directory only when it reports it.
ScanProcessedAfter(d, reported) ==
    IF reported THEN processed_dirs \cup {d} ELSE processed_dirs

\* The loop of release-type-only mode calling the Album Artist setter
\* (changed behaviour, used to test the properties).
RECURSIVE release_type_loop_wrong_setter(_, _, _)
release_type_loop_wrong_setter(fs, raise, acc) ==
    IF fs = <<>> THEN acc
    ELSE LET f == Head(fs)
             r == f \in raise
         IN  release_type_loop_wrong_setter(Tail(fs), raise,
                 [acc EXCEPT !.aa  = set_tag(@, f, release_type, r),
                             !.log = Append(@, SetAAEv(f, release_type, r)),
                             !.any = @ \/ ~r])

\* Lines 149-152: the loop of release-type-only mode.  acc = [aa, rt, log, any].
RECURSIVE release_type_loop(_, _, _)
release_type_loop(fs, raise, acc) ==
    IF fs = <<>> THEN acc
    ELSE LET f == Head(fs)
             r == f \in raise
         IN  release_type_loop(Tail(fs), raise,
                 [acc EXCEPT !.rt  = set_tag(@, f, release_type, r),
                             !.log = Append(@, SetRTEv(f, release_type, r)),
                             !.any = @ \/ ~r])

\* The loop of force mode with a failed Album Artist write made once more
\* (changed behaviour, used to test the properties).
RECURSIVE force_loop_retry(_, _, _, _)
force_loop_retry(fs, raiseAA, raiseRT, acc) ==
    IF fs = <<>> THEN acc
    ELSE LET f   == Head(fs)
             ra  == f \in raiseAA
             rr  == f \in raiseRT
             wrt == Truthy(release_type)
             success == (~ra) \/ (wrt /\ ~rr)
         IN  force_loop_retry(Tail(fs), raiseAA, raiseRT,
                 [acc EXCEPT !.aa  = set_tag(@, f, force_value, ra),
                             !.rt  = IF wrt THEN set_tag(@, f, release_type, rr) ELSE @,
                             !.log = Append(@, SetAAEv(f, force_value, ra))
                                     \o (IF ra THEN <<SetAAEv(f, force_value, ra)>> ELSE <<>>)
                                     \o (IF wrt THEN <<SetRTEv(f, release_type, rr)>> ELSE <<>>),
                             !.any = @ \/ success])

\* Lines 160-169: the loop of force mode.
RECURSIVE force_loop(_, _, _, _)
force_loop(fs, raiseAA, raiseRT, acc) ==
    IF fs = <<>> THEN acc
    ELSE LET f   == Head(fs)
             ra  == f \in raiseAA
             rr  == f \in raiseRT
             wrt == Truthy(release_type)
             success == (~ra) \/ (wrt /\ ~rr)
         IN  force_loop(Tail(fs), raiseAA, raiseRT,
                 [acc EXCEPT !.aa  = set_tag(@, f, force_value, ra),
                             !.rt  = IF wrt THEN set_tag(@, f, release_type, rr) ELSE @,
                             !.log = Append(@, SetAAEv(f, force_value, ra))
                                     \o (IF wrt THEN <<SetRTEv(f, release_type, rr)>> ELSE <<>>),
                             !.any = @ \/ success])

\* The first loop without its break (changed behaviour).
RECURSIVE needs_update_loop_no_break(_, _, _)
needs_update_loop_no_break(fs, raise, acc) ==
    IF fs = <<>> THEN acc
    ELSE LET f == Head(fs)
             r == f \in raise
             album_artist == get_album_artist(acc.aa, f, r)
         IN  needs_update_loop_no_break(Tail(fs), raise,
                 [acc EXCEPT !.log = Append(@, GetEv(f, album_artist, r)),
                             !.any = @ \/ (album_artist = None \/ Strip(album_artist) = "")])

\* Lines 177-182: the loop that decides needs_update, left at the first missing value.
RECURSIVE needs_update_loop(_, _, _)
needs_update_loop(fs, raise, acc) ==
    IF fs = <<>> THEN acc
    ELSE LET f == Head(fs)
             r == f \in raise
             album_artist == get_album_artist(acc.aa, f, r)
             acc1 == [acc EXCEPT !.log = Append(@, GetEv(f, album_artist, r))]
         IN  IF IsMissing(album_artist)
             THEN [acc1 EXCEPT !.any = TRUE]
             ELSE needs_update_loop(Tail(fs), raise, acc1)

\* Lines 186-191: the loop that writes the files with a missing value.
RECURSIVE update_loop(_, _, _, _)
update_loop(fs, raiseGet, raiseSet, acc) ==
    IF fs = <<>> THEN acc
    ELSE LET f == Head(fs)
             r == f \in raiseGet
             w == f \in raiseSet
             album_artist == get_album_artist(acc.aa, f, r)
             acc1 == [acc EXCEPT !.log = Append(@, GetEv(f, album_artist, r))]
         IN  update_loop(Tail(fs), raiseGet, raiseSet,
                 IF IsMissing(album_artist)
                 THEN [acc1 EXCEPT !.aa  = set_tag(@, f, VariousArtists, w),
                                   !.log = Append(@, SetAAEv(f, VariousArtists, w)),
                                   !.any = @ \/ ~w]
                 ELSE acc1)

Acc0(d) == [aa |-> albumArtist, rt |-> releaseType, log |-> log[d], any |-> FALSE]

----------------------------------------------------------------------------
\* The state machine

Init ==
    /\ args \in ArgSpace
    /\ parent \in [Entries -> Dirs]
    /\ parent[1] = "A"
    /\ albumArtist \in [Files -> TagValues]
    /\ releaseType = [f \in Files |-> None]
    /\ albumArtist0 = albumArtist
    /\ pc = "main"
    /\ update_mode = FALSE
    /\ force_mode = FALSE
    /\ force_value = VariousArtists
    /\ release_type = None
    /\ release_type_only = FALSE
    /\ todo = Entries
    /\ processed_dirs = {}
    /\ updated_dirs = {}
    /\ banner = None
    /\ log = [d \in Dirs |-> <<>>]

\* main, lines 252-270: the flags become the parameters of scan_directory.
Main ==
    /\ pc = "main"
    /\ pc' = "walk"
    /\ force_value' = IF Truthy(args.force) THEN args.force ELSE VariousArtists
    /\ release_type_only' = (~Truthy(args.force) /\ Truthy(args.release_type))
    /\ update_mode' = args.update
    /\ force_mode' = Truthy(args.force)
    /\ release_type' = args.release_type
    /\ banner' = IF Truthy(args.force) THEN "Force updating ALL files"
                 ELSE IF Truthy(args.release_type) THEN "Setting RELEASETYPE"
                 ELSE IF args.update THEN "Updating files"
                 ELSE None
    /\ UNCHANGED <<args, fsvars, albumArtist, releaseType, todo, processed_dirs, updated_dirs, log>>

\* Lines 143-144 with the test of line 144 false: the directory has had its pass.
AlreadyProcessed(e) ==
    /\ pc = "walk"
    /\ e \in todo
    /\ is_audio_file(e)
    /\ DirectoryMode
    /\ parent[e] \in processed_dirs
    /\ todo' = todo \ {e}
    /\ UNCHANGED <<modevars, fsvars, albumArtist, releaseType, pc, processed_dirs, updated_dirs, banner, log>>

\* Lines 147-156 and 197.
ReleaseTypeDir(e) ==
    /\ pc = "walk"
    /\ e \in todo
    /\ is_audio_file(e)
    /\ DirectoryMode
    /\ parent[e] \notin processed_dirs
    /\ Branch = "release_type"
    /\ LET d == parent[e] IN
       \E raise \in SUBSET {f \in Files : parent[f] = d} :
          LET res == release_type_loop(dir_files(d), raise, Acc0(d)) IN
          /\ albumArtist' = res.aa
          /\ releaseType' = res.rt
          /\ log' = [log EXCEPT ![d] = res.log \o ReportLine("Release Type Updated", res.any)]
          /\ updated_dirs' = UpdatedAfter(d, res.any)
          /\ processed_dirs' = ProcessedAfter(d)
    /\ todo' = todo \ {e}
    /\ UNCHANGED <<modevars, fsvars, pc, banner>>

\* Lines 158-173 and 197.
ForceDir(e) ==
    /\ pc = "walk"
    /\ e \in todo
    /\ is_audio_file(e)
    /\ DirectoryMode
    /\ parent[e] \notin processed_dirs
    /\ Branch = "force"
    /\ LET d == parent[e] IN
       \E raiseAA \in SUBSET {f \in Files : parent[f] = d} :
       \E raiseRT \in SUBSET {f \in Files : parent[f] = d /\ Truthy(release_type)} :
          LET res == force_loop(dir_files(d), raiseAA, raiseRT, Acc0(d)) IN
          /\ albumArtist' = res.aa
          /\ releaseType' = res.rt
          /\ log' = [log EXCEPT ![d] = res.log \o ReportLine("Force Updated", res.any)]
          /\ updated_dirs' = UpdatedAfter(d, res.any)
          /\ processed_dirs' = ProcessedAfter(d)
    /\ todo' = todo \ {e}
    /\ UNCHANGED <<modevars, fsvars, pc, banner>>

\* Lines 175-195 and 197.  The sets name the calls that raise: raise1 among
\* the reads of the first loop, raise2 among the reads of the second loop,
\* raiseSet among the writes.
UpdateDir(e) ==
    /\ pc = "walk"
    /\ e \in todo
    /\ is_audio_file(e)
    /\ DirectoryMode
    /\ parent[e] \notin processed_dirs
    /\ Branch = "update"
    /\ LET d == parent[e]
           F == {f \in Files : parent[f] = d}
       IN
       \E raise1 \in SUBSET F :
          LET needs == needs_update_loop(dir_files(d), raise1, Acc0(d)) IN
          /\ raise1 \subseteq FilesOf(needs.log, "get")
          /\ IF needs.any
             THEN \E raise2 \in SUBSET F :
                  \E raiseSet \in SUBSET F :
                     LET res == update_loop(dir_files(d), raise2, raiseSet,
                                            [needs EXCEPT !.any = FALSE]) IN
                     /\ raiseSet \subseteq FilesOf(res.log, "set_album_artist")
                     /\ albumArtist' = res.aa
                     /\ releaseType' = res.rt
                     /\ log' = [log EXCEPT ![d] = res.log \o ReportLine("Updated", res.any)]
                     /\ updated_dirs' = UpdatedAfter(d, res.any)
             ELSE /\ albumArtist' = needs.aa
                  /\ releaseType' = needs.rt
                  /\ log' = [log EXCEPT ![d] = needs.log]
                  /\ updated_dirs' = updated_dirs
    /\ processed_dirs' = ProcessedAfter(parent[e])
    /\ todo' = todo \ {e}
    /\ UNCHANGED <<modevars, fsvars, pc, banner>>

\* Lines 200-201: scan mode, the directory has had its line.
ScanSkip(e) ==
    /\ pc = "walk"
    /\ e \in todo
    /\ is_audio_file(e)
    /\ ~DirectoryMode
    /\ parent[e] \in processed_dirs
    /\ todo' = todo \ {e}
    /\ UNCHANGED <<modevars, fsvars, albumArtist, releaseType, pc, processed_dirs, updated_dirs, banner, log>>

\* Lines 203-210: scan mode reads the file.
ScanFile(e) ==
    /\ pc = "walk"
    /\ e \in todo
    /\ is_audio_file(e)
    /\ ~DirectoryMode
    /\ parent[e] \notin processed_dirs
    /\ \E raises \in BOOLEAN :
          LET album_artist == get_album_artist(albumArtist, e, raises) IN
          /\ log' = [log EXCEPT ![parent[e]] =
                        Append(@, GetEv(e, album_artist, raises))
                        \o (IF Reported(album_artist)
                            THEN <<PrintEv("Scan", artist_value(album_artist))>>
                            ELSE <<>>)]
          /\ processed_dirs' = ScanProcessedAfter(parent[e], Reported(album_artist))
    /\ todo' = todo \ {e}
    /\ UNCHANGED <<modevars, fsvars, albumArtist, releaseType, pc, updated_dirs, banner>>

\* Line 136: rglob is exhausted and scan_directory returns.
Finish ==
    /\ pc = "walk"
    /\ todo = {}
    /\ pc' = "done"
    /\ UNCHANGED <<modevars, fsvars, albumArtist, releaseType, todo, processed_dirs, updated_dirs, banner, log>>

Next ==
    \/ Main
    \/ \E e \in Entries : AlreadyProcessed(e)
    \/ \E e \in Entries : ReleaseTypeDir(e)
    \/ \E e \in Entries : ForceDir(e)
    \/ \E e \in Entries : UpdateDir(e)
    \/ \E e \in Entries : ScanSkip(e)
    \/ \E e \in Entries : ScanFile(e)
    \/ Finish

Spec == Init /\ [][Next]_vars

----------------------------------------------------------------------------
\* Reading the state

FilesIn(d) == {f \in Files : parent[f] = d}

\* The positions of a directory's log that hold an event of the given kinds.
Idx(d, ops) == {i \in DOMAIN log[d] : log[d][i][1] \in ops}

\* The positions that hold an event of one kind about one file.
IdxOf(f, op) == {i \in DOMAIN log[parent[f]] :
                    log[parent[f]][i][1] = op /\ log[parent[f]][i][2] = f}

WriteOps == {"set_album_artist", "set_release_type"}

\* The report lines printed for a directory.
Lines(d) == Idx(d, ReportKinds)

\* The mode the walk runs in.
ScanMode == pc # "main" /\ ~DirectoryMode
UpdateMode == DirectoryMode /\ Branch = "update"
ForceMode == DirectoryMode /\ Branch = "force"
ReleaseTypeOnlyMode == DirectoryMode /\ Branch = "release_type"

\* The mode the command line asks for, by the precedence
\* Force > Release-Type-Only > Update > Scan.
Requested ==
    IF args.force # None THEN "force"
    ELSE IF args.release_type # None THEN "release_type"
    ELSE IF args.update THEN "update"
    ELSE "scan"

\* The mode that runs.
Actual == IF DirectoryMode THEN Branch ELSE "scan"

----------------------------------------------------------------------------
\* C1: in every mode and for every order of the walk, at most one report line
\* is printed for any parent directory, however many audio files it holds.
C1_AtMostOneLine == \A d \in Dirs : Cardinality(Lines(d)) <= 1

\* A finished run over a directory of at least two audio files that got its line.
C1_Witness ==
    /\ pc = "done"
    /\ \E d \in Dirs : Cardinality(FilesIn(d)) >= 2 /\ Cardinality(Lines(d)) = 1

\* C2: scan mode, at the end of the run: a directory whose files all read
\* "Various Artists" has no line; a directory with a file whose Album Artist is
\* missing or different has exactly one line.
C2_ScanLines ==
    (ScanMode /\ pc = "done") =>
        \A d \in Dirs :
            /\ (/\ \A f \in FilesIn(d) : IdxOf(f, "get") # {}
                /\ \A i \in Idx(d, {"get"}) : log[d][i][3] = VariousArtists)
               => Lines(d) = {}
            /\ (\E f \in FilesIn(d) : albumArtist[f] # VariousArtists)
               => Cardinality(Lines(d)) = 1

\* A finished scan with one directory silent (two files, both "Various
\* Artists") or reported after a first file that read "Various Artists".
C2_Witness ==
    /\ ScanMode /\ pc = "done"
    /\ \E d \in Dirs :
          /\ Cardinality(FilesIn(d)) >= 2
          /\ Len(log[d]) >= 3
          /\ log[d][1][1] = "get" /\ log[d][1][3] = VariousArtists
          /\ Cardinality(Lines(d)) = 1

\* C3 as stated: in update mode a file whose Album Artist was non-blank when
\* the run started still has the same Album Artist, whatever the other files
\* of its directory hold and whatever calls raise.
C3_NonBlankKept ==
    UpdateMode =>
        \A f \in Files :
            ~IsMissing(albumArtist0[f]) => albumArtist[f] = albumArtist0[f]

\* C4 as stated: with --force on the command line, for any VALUE (and the
\* default when VALUE is omitted), the run writes VALUE to Album Artist on
\* every audio file.
C4_ForceWritesAll ==
    (pc = "done" /\ args.force # None) =>
        \A f \in Files :
            \E i \in IdxOf(f, "set_album_artist") : log[parent[f]][i][3] = args.force

\* C5: scan mode and release-type-only mode leave every Album Artist as it
\* was; scan mode writes no tag; release-type-only mode writes Release Type
\* only; Album Artist is written only in update and force modes.
C5_AlbumArtistFrame ==
    /\ (ScanMode \/ ReleaseTypeOnlyMode) =>
          /\ albumArtist = albumArtist0
          /\ \A d \in Dirs : Idx(d, {"set_album_artist"}) = {}
    /\ ScanMode =>
          /\ \A d \in Dirs : Idx(d, WriteOps) = {}
          /\ \A f \in Files : releaseType[f] = None
    /\ (\E d \in Dirs : Idx(d, {"set_album_artist"}) # {}) => (UpdateMode \/ ForceMode)

\* A finished release-type-only run asked for together with --update, over a
\* file without Album Artist, that wrote Release Type.
C5_Witness ==
    /\ pc = "done" /\ ReleaseTypeOnlyMode /\ update_mode
    /\ \E f \in Files : albumArtist[f] = None /\ releaseType[f] = release_type

\* C6 as stated: for every accepted combination of flags, the mode that runs
\* is the highest-precedence one asked for, and --force with --release-type
\* writes both fields.
C6_Precedence ==
    pc # "main" =>
        /\ Actual = Requested
        /\ (pc = "done" /\ args.force # None /\ args.release_type # None) =>
              \A f \in Files : /\ IdxOf(f, "set_album_artist") # {}
                               /\ IdxOf(f, "set_release_type") # {}

\* C7 as stated, its last clause: a file whose write failed is not written
\* again during the run.
C7_FailedFileNotWrittenAgain ==
    \A d \in Dirs : \A i, j \in Idx(d, WriteOps) :
        (i < j /\ ~log[d][i][4]) => log[d][j][2] # log[d][i][2]

\* C7, amended: a call that raises never ends the run.  A read that raises
\* gives None and a write that raises gives False; no write is repeated (a
\* file gets at most one Album Artist write and at most one Release Type
\* write); and when the run ends every audio file of every directory has had
\* the calls of the mode that ran.
C7_NoAbortNoRetry ==
    /\ \A f \in Files : /\ Cardinality(IdxOf(f, "set_album_artist")) <= 1
                        /\ Cardinality(IdxOf(f, "set_release_type")) <= 1
    /\ \A d \in Dirs : \A i \in Idx(d, {"get"}) : ~log[d][i][4] => log[d][i][3] = None
    /\ pc = "done" =>
          \A f \in Files :
             LET d == parent[f] IN
             /\ ScanMode => (Lines(d) # {} \/ IdxOf(f, "get") # {})
             /\ ReleaseTypeOnlyMode => IdxOf(f, "set_release_type") # {}
             /\ ForceMode => /\ IdxOf(f, "set_album_artist") # {}
                             /\ Truthy(release_type) => IdxOf(f, "set_release_type") # {}
             /\ UpdateMode =>
                   /\ IdxOf(f, "get") # {}
                   /\ (\E i \in Idx(d, {"get"}) : IsMissing(log[d][i][3]))
                      => \E i \in IdxOf(f, "get") :
                            /\ \A j \in IdxOf(f, "get") : j <= i
                            /\ IsMissing(log[d][i][3]) =>
                                  /\ i < Len(log[d])
                                  /\ log[d][i + 1][1] = "set_album_artist"
                                  /\ log[d][i + 1][2] = f

\* A finished run in which a call on one file raised and a later call on
\* another file of the same directory went through.
C7_Witness ==
    /\ pc = "done"
    /\ \E d \in Dirs : \E i, j \in DOMAIN log[d] :
          /\ i < j
          /\ log[d][i][1] \in WriteOps \cup {"get"} /\ ~log[d][i][4]
          /\ log[d][j][1] \in WriteOps /\ log[d][j][4]
          /\ log[d][j][2] # log[d][i][2]

\* C8 as stated: in scan mode the first enumerated file of a directory
\* decides; the line carries that file's value and no later file of the
\* directory is read.
C8_FirstFileDecides ==
    ScanMode =>
        \A d \in Dirs :
            /\ Cardinality(Idx(d, {"get"})) <= 1
            /\ \A i \in Lines(d) : log[d][i][3] = artist_value(log[d][1][3])

\* C8, amended: in scan mode the files of a directory are read in the order
\* of the walk until one reads other than "Various Artists"; the line carries
\* that file's value (or "(not set)"), follows its read at once, and is the
\* last event of the directory: no later file of it is read.  No file is read
\* twice.
C8_FirstDeviantDecides ==
    ScanMode =>
        /\ \A f \in Files : Cardinality(IdxOf(f, "get")) <= 1
        /\ \A d \in Dirs : \A i \in DOMAIN log[d] :
              /\ log[d][i][1] \in {"get", "Scan"}
              /\ (log[d][i][1] = "get" /\ log[d][i][3] # VariousArtists) =>
                    /\ i + 1 = Len(log[d])
                    /\ log[d][i + 1][1] = "Scan"
                    /\ log[d][i + 1][3] = artist_value(log[d][i][3])
              /\ (log[d][i][1] = "get" /\ log[d][i][3] = VariousArtists) =>
                    (i < Len(log[d]) => log[d][i + 1][1] = "get")
              /\ log[d][i][1] = "Scan" =>
                    /\ i = Len(log[d])
                    /\ i > 1
                    /\ log[d][i - 1][1] = "get"
                    /\ log[d][i - 1][3] # VariousArtists

\* A scan of a directory whose first file read "Various Artists" and whose
\* second file was read and gave the line.
C8_Witness ==
    /\ ScanMode
    /\ \E d \in Dirs :
          /\ Len(log[d]) = 3
          /\ log[d][1][1] = "get" /\ log[d][1][3] = VariousArtists
          /\ log[d][2][1] = "get" /\ log[d][2][3] = "DJ Mix"
          /\ log[d][3][1] = "Scan" /\ log[d][3][3] = "DJ Mix"

\* The report kind of each branch.
KindOf(branch) ==
    CASE branch = "update"       -> "Updated"
      [] branch = "force"        -> "Force Updated"
      [] branch = "release_type" -> "Release Type Updated"
      [] OTHER                   -> "Scan"

\* C9: in update, force and release-type-only modes a directory has its
\* report line if and only if a tag write on one of its files returned
\* success; the line is the one of the mode.
C9_LineIffSuccess ==
    DirectoryMode =>
        \A d \in Dirs :
            /\ (Lines(d) # {}) <=> (\E i \in Idx(d, WriteOps) : log[d][i][4])
            /\ \A i \in Lines(d) : log[d][i][1] = KindOf(Branch)

\* A finished run with one directory whose every write failed and that has
\* no line, and another directory with a failed and a successful write and a line.
C9_Witness ==
    /\ pc = "done" /\ DirectoryMode
    /\ \E d1, d2 \in Dirs :
          /\ Idx(d1, WriteOps) # {}
          /\ \A i \in Idx(d1, WriteOps) : ~log[d1][i][4]
          /\ Lines(d1) = {}
          /\ \E i, j \in Idx(d2, WriteOps) : ~log[d2][i][4] /\ log[d2][j][4]
          /\ Lines(d2) # {}

\* C10 as stated: in update mode every audio file of a processed directory
\* has its Album Artist read twice.
C10_EveryFileReadTwice ==
    UpdateMode =>
        \A d \in processed_dirs : \A f \in FilesIn(d) :
            Cardinality(IdxOf(f, "get")) = 2

\* C10, amended: in update mode the deciding pass reads the files of the
\* directory in order and stops at the first whose value is missing or blank.
\* If there is none, every file was read once and nothing is written.
\* Otherwise every file is read once more in the per-file pass: the files up
\* to the one that decided are read twice, the files after it once; and every
\* write comes right after a read of the same file, made after the decision,
\* that gave a missing or blank value.
C10_ReadsOfUpdate ==
    UpdateMode =>
        \A d \in processed_dirs :
            LET L == log[d]
                missing == {i \in Idx(d, {"get"}) : IsMissing(L[i][3])}
            IN  IF missing = {}
                THEN /\ \A f \in FilesIn(d) : Cardinality(IdxOf(f, "get")) = 1
                     /\ Idx(d, WriteOps) = {}
                     /\ Lines(d) = {}
                ELSE LET k == CHOOSE i \in missing : \A j \in missing : i <= j IN
                     /\ \A i \in 1..k : L[i][1] = "get"
                     /\ \A f \in FilesIn(d) :
                           Cardinality(IdxOf(f, "get")) = IF f <= L[k][2] THEN 2 ELSE 1
                     /\ \A f \in FilesIn(d) : \E i \in IdxOf(f, "get") : i > k
                     /\ \A i \in Idx(d, {"set_album_artist"}) :
                           /\ i - 1 > k
                           /\ L[i - 1][1] = "get"
                           /\ L[i - 1][2] = L[i][2]
                           /\ IsMissing(L[i - 1][3])

\* An update of a directory of two files: the first decided and was read
\* twice and written, the second was read once.
C10_Witness ==
    /\ UpdateMode
    /\ \E d \in processed_dirs : \E f, g \in FilesIn(d) :
          /\ f < g
          /\ Cardinality(IdxOf(f, "get")) = 2
          /\ Cardinality(IdxOf(g, "get")) = 1
          /\ IdxOf(f, "set_album_artist") # {}

====
